---- MODULE Spec2Model ----
(***************************************************************************)
(* A model of the query-resolution and response-shaping layer of the pint  *)
(* server (src/pint_server/app.py) over the tables that                    *)
(* src/pint_server/models.py declares.  The storage is read-only for the   *)
(* service: the tables are chosen in Init and never change; every request  *)
(* handler is one action.                                                  *)
(***************************************************************************)
EXTENDS Integers, Sequences, FiniteSets, TLC

VARIABLES
    versions,    \* versions table: table name -> version (0: no row)
    servers,     \* <<provider, server type>> -> set of rows of that table
    images,      \* provider -> set of rows of its images table
    regionmap,   \* rows of microsoftregionmap
    pc,          \* "idle": no request in progress; "done": response produced
    req,         \* the request being served (route and its parameters)
    resp,        \* the response: status, collection name, items
    formatted,   \* the <<row, dict>> pairs get_formatted_dict produced
    lookup,      \* the microsoftregionmap row the request's .first() returned
    session      \* the scoped storage session: "none" or "open"

vars == <<versions, servers, images, regionmap, pc, req, resp, formatted,
          lookup, session>>

(***************************************************************************)
(* Bounds of the model.                                                    *)
(***************************************************************************)
MaxRows == 2        \* rows of the tables of a provider
MaxAlias == 2       \* rows of microsoftregionmap
MaxVersion == 2     \* largest version number recorded

(***************************************************************************)
(* Values.  A column value is None, a string, an integer, a Decimal, a     *)
(* date, or a member of one of the two enums; a response value is a        *)
(* string, an integer or a float.                                          *)
(***************************************************************************)
None == [k |-> "none"]
StrV(s) == [k |-> "str", v |-> s]
IntV(n) == [k |-> "int", v |-> n]
DecimalV(n) == [k |-> "decimal", v |-> n]
FloatV(n) == [k |-> "float", v |-> n]
DateV(y, m, d) == [k |-> "date", v |-> <<y, m, d>>]
ImageStateV(s) == [k |-> "ImageState", v |-> s]
ServerTypeV(s) == [k |-> "ServerType", v |-> s]
InstanceState == [k |-> "InstanceState"]

\* Python truth value of a column value: None, '', 0 and Decimal(0) are false
Truthy(val) ==
    CASE val.k = "none" -> FALSE
      [] val.k = "str" -> val.v # ""
      [] val.k = "int" -> val.v # 0
      [] val.k = "decimal" -> val.v # 0
      [] OTHER -> TRUE

null_to_empty_Identity(val) == val

null_to_empty(val) == IF Truthy(val) THEN val ELSE StrV("")

ImageState == {"deleted", "deprecated", "inactive", "active"}
ServerType == {"region", "update"}

\* str.lower() on the tokens of the model: the mixed-case tokens and their
\* lower-case forms; every other token of the model is lower-case already
MixedCase == {"Amazon", "Microsoft"}
Lower(s) ==
    CASE s = "Amazon" -> "amazon"
      [] s = "Microsoft" -> "microsoft"
      [] OTHER -> s

\* date.strftime('%Y%m%d')
DigitChar == <<"0", "1", "2", "3", "4", "5", "6", "7", "8", "9">>
Digit(n) == DigitChar[n + 1]
TwoDigits(n) == Digit((n \div 10) % 10) \o Digit(n % 10)
strftime(val) ==
    TwoDigits(val.v[1] \div 100) \o TwoDigits(val.v[1] % 100)
        \o TwoDigits(val.v[2]) \o TwoDigits(val.v[3])

(***************************************************************************)
(* Dictionaries: a set of <<key, value>> pairs with one pair per key.      *)
(***************************************************************************)
Keys(d) == {p[1] : p \in d}
Get(d, key) == (CHOOSE p \in d : p[1] = key)[2]
Put(d, key, val) == {p \in d : p[1] # key} \cup {<<key, val>>}
Update(d, e) == {p \in d : p[1] \notin Keys(e)} \cup e

\* obj.__dict__ is a sequence of <<attr, value>> pairs, in the order in
\* which the mapped columns are declared; obj.__dict__.get(attr)
HasAttr(obj, attr) == \E i \in DOMAIN obj : obj[i][1] = attr
Attr(obj, attr) ==
    IF HasAttr(obj, attr)
    THEN obj[CHOOSE i \in DOMAIN obj : obj[i][1] = attr][2]
    ELSE None

REGIONSERVER_SMT_MAP_Region ==
    [t \in {"smt", "regionserver", "regionserver-sap", "regionserver-sles",
            "update", "region"} |->
        IF t = "update" THEN "update" ELSE "region"]

REGIONSERVER_SMT_MAP ==
    [t \in {"smt", "regionserver", "regionserver-sap", "regionserver-sles",
            "update", "region"} |->
        IF t \in {"smt", "update"} THEN "update" ELSE "region"]

REGIONSERVER_SMT_REVERSED_MAP_Identity ==
    [t \in {"update", "region"} |-> t]

REGIONSERVER_SMT_REVERSED_MAP ==
    [t \in {"update", "region"} |->
        IF t = "update" THEN "smt" ELSE "regionserver"]

\* attr[0] == '_': the attributes of the model that begin with an underscore
Underscored(attr) == attr \in {"_sa_instance_state"}

\* One pass of the loop of get_formatted_dict over obj.__dict__.items()
FormatStep(obj, d, i, exclude_attrs) ==
    LET attr == obj[i][1]
        value == obj[i][2]
        server_type == IF Truthy(Attr(obj, "name")) THEN "update" ELSE "region"
        prefix == REGIONSERVER_SMT_REVERSED_MAP[server_type]
        joined == IF Truthy(value) THEN prefix \o "-" \o value.v ELSE prefix
        typed == Put(d, "type", StrV(joined))
    IN  IF Lower(attr) \in {"urn", "changeinfo"} /\ ~Truthy(value) THEN d
        ELSE IF Lower(attr) = "shape"
        THEN IF server_type = "region" THEN Put(typed, "name", StrV(""))
             ELSE typed
        ELSE IF attr \in exclude_attrs THEN d
        ELSE IF Underscored(attr) THEN d
        ELSE IF value.k = "decimal" THEN Put(d, attr, FloatV(value.v))
        ELSE IF value.k = "ImageState"
             THEN Put(d, attr, StrV(Attr(obj, "state").v))
        ELSE IF value.k = "date" THEN Put(d, attr, StrV(strftime(value)))
        ELSE Put(d, attr, null_to_empty(value))

RECURSIVE FormatLoop(_, _, _, _)
FormatLoop(obj, d, i, exclude_attrs) ==
    IF i > Len(obj) THEN d
    ELSE FormatLoop(obj, FormatStep(obj, d, i, exclude_attrs), i + 1,
                    exclude_attrs)

get_formatted_dict(obj, extra_attrs, exclude_attrs) ==
    Update(FormatLoop(obj, {}, 1, exclude_attrs), extra_attrs)

(***************************************************************************)
(* The storage.  The registries of app.py name the tables of each          *)
(* provider; models.py gives the columns of each table.                    *)
(***************************************************************************)
PROVIDER_IMAGES_MODEL_MAP ==
    {"amazon", "google", "microsoft", "alibaba", "oracle"}

\* the providers that have server tables, one table per ServerType each
PROVIDER_SERVERS_MODEL_MAP == {"amazon", "google", "microsoft"}

SUPPORTED_CATEGORIES == {"images", "servers"}

\* hasattr(model, 'region') for the images models
ImagesHaveRegion(provider) == provider \in {"amazon", "alibaba"}

\* __tablename__ of the images model and of the two servers models
ImagesTable(provider) == provider \o "images"
ServersTable(provider, server_type) == provider \o server_type \o "servers"

TableNames ==
    {ImagesTable(p) : p \in PROVIDER_IMAGES_MODEL_MAP}
        \cup {ServersTable(p, t) : p \in PROVIDER_SERVERS_MODEL_MAP,
                                   t \in ServerType}

\* a row of a servers table as obj.__dict__ (columns of ProviderServerBase)
ServerRow(id, type, shape, name, region) ==
    << <<"_sa_instance_state", InstanceState>>,
       <<"id", IntV(id)>>,
       <<"type", ServerTypeV(type)>>,
       <<"shape", shape>>,
       <<"name", name>>,
       <<"ip", StrV("1.2.3.4")>>,
       <<"region", StrV(region)>>,
       <<"ipv6", None>> >>

\* the columns every images table has (ProviderImageBase)
ImageBase(state, deprecatedon, changeinfo) ==
    << <<"_sa_instance_state", InstanceState>>,
       <<"state", ImageStateV(state)>>,
       <<"replacementname", None>>,
       <<"publishedon", DateV(2021, 9, 13)>>,
       <<"deprecatedon", deprecatedon>>,
       <<"deletedon", None>>,
       <<"changeinfo", changeinfo>> >>

\* a row of the images table of a provider; where is its region (amazon,
\* alibaba) or its environment (microsoft)
ImageRow(provider, id, state, where, deprecatedon, changeinfo, urn) ==
    ImageBase(state, deprecatedon, changeinfo) \o
    CASE provider \in {"amazon", "alibaba"} ->
            << <<"name", StrV("sles")>>, <<"id", StrV("i-" \o Digit(id))>>,
               <<"replacementid", None>>, <<"region", StrV(where)>> >>
      [] provider = "google" ->
            << <<"name", StrV("sles-" \o Digit(id))>>,
               <<"project", StrV("suse-cloud")>> >>
      [] provider = "microsoft" ->
            << <<"id", IntV(id)>>, <<"name", StrV("sles")>>,
               <<"environment", StrV(where)>>, <<"urn", urn>> >>
      [] provider = "oracle" ->
            << <<"name", StrV("sles")>>, <<"id", StrV("i-" \o Digit(id))>>,
               <<"replacementid", None>> >>

\* a row of microsoftregionmap
AliasRow(environment, region, canonicalname) ==
    [environment |-> environment, region |-> region,
     canonicalname |-> canonicalname]

(***************************************************************************)
(* The contents of the storage the model explores.                         *)
(***************************************************************************)
\* region tokens, listed in ascending order of Python's string comparison
RegionOrder == <<"East US", "eastus", "westus">>
Regions == {RegionOrder[i] : i \in DOMAIN RegionOrder}
Rank(r) == CHOOSE i \in DOMAIN RegionOrder : RegionOrder[i] = r
Environments == {"PublicAzure", "AzureChinaCloud"}
DirectRegions == {"eastus", "westus"}

\* validate_name: an update server has a name; a region server may have none
ServerNames(type) ==
    IF type = "update" THEN {StrV("foo")} ELSE {None, StrV(""), StrV("foo")}
PlainName(type) == IF type = "update" THEN StrV("foo") ELSE None

\* one server per region, with no shape
PlainServerRows(type, regions) ==
    {ServerRow(Rank(r), type, StrV(""), PlainName(type), r) : r \in regions}
RichServerRows(type) ==
    {ServerRow(1, type, shape, name, "eastus") :
        shape \in {None, StrV(""), StrV("sap")}, name \in ServerNames(type)}

\* one active image per region (or one, where images have no region)
PlainImageRows(provider) ==
    {ImageRow(provider, Rank(r), "active", r, None, None, None) :
        r \in IF ImagesHaveRegion(provider) THEN DirectRegions
              ELSE {"eastus"}}
RichImageRows(provider) ==
    {ImageRow(provider, 1, "deprecated",
              IF provider = "microsoft" THEN "PublicAzure" ELSE "eastus",
              deprecatedon, changeinfo, urn) :
        deprecatedon \in {None, DateV(2022, 1, 31)},
        changeinfo \in {None, StrV(""), StrV("http://x")},
        urn \in IF provider = "microsoft"
                THEN {None, StrV(""), StrV("suse:sles:15")} ELSE {None}}

NoServers == [pt \in PROVIDER_SERVERS_MODEL_MAP \X ServerType |-> {}]
NoImages == [p \in PROVIDER_IMAGES_MODEL_MAP |-> {}]
AllVersions == [t \in TableNames |-> 1]

(***************************************************************************)
(* Queries of the dispatcher.  A call either returns (status 200, with the *)
(* items and the <<row, dict>> pairs it formatted), aborts with a status,  *)
(* or raises an exception no handler catches (status 500).                 *)
(***************************************************************************)
Ok(items, pairs) == [status |-> 200, items |-> items, pairs |-> pairs]
Abort(status) == [status |-> status, items |-> {}, pairs |-> {}]
Unhandled == Abort(500)

\* [get_formatted_dict(row, extra_attrs) for row in rows]
FormatAll(rows, extra_attrs) ==
    Ok({get_formatted_dict(row, extra_attrs, {}) : row \in rows},
       {<<row, get_formatted_dict(row, extra_attrs, {})>> : row \in rows})

NameDict(name) == {<<"name", StrV(name)>>}

\* re.sub('((region|update)servers|images)', '', tablename) on the table names
StripSuffix(tablename) ==
    CHOOSE p \in PROVIDER_IMAGES_MODEL_MAP :
        tablename \in {p \o "images", p \o "regionservers",
                       p \o "updateservers"}

get_supported_providers(vs) ==
    {StripSuffix(t) : t \in {u \in TableNames : vs[u] # 0}}

assert_valid_provider_Registry(vs, provider) ==
    Lower(provider) \in PROVIDER_IMAGES_MODEL_MAP

assert_valid_provider(vs, provider) ==
    Lower(provider) \in get_supported_providers(vs)

assert_valid_category(category) == category \in SUPPORTED_CATEGORIES

\* the names get_provider_servers_types returns, in the order of the list
get_provider_servers_types(provider) ==
    IF provider \notin PROVIDER_SERVERS_MODEL_MAP
    THEN <<"smt", "regionserver">>
    ELSE <<"region", "update">>

SeqRange(q) == {q[i] : i \in DOMAIN q}

\* aborts: the call ends the request with 404; type: the ServerType returned
get_mapped_server_type_for_provider(provider, server_type) ==
    IF server_type \notin DOMAIN REGIONSERVER_SMT_MAP
    THEN [aborts |-> TRUE, type |-> ""]
    ELSE LET mapped_server_type == REGIONSERVER_SMT_MAP[server_type]
         IN  IF /\ provider \in PROVIDER_SERVERS_MODEL_MAP
                /\ mapped_server_type \notin
                       SeqRange(get_provider_servers_types(provider))
             THEN [aborts |-> TRUE, type |-> ""]
             ELSE [aborts |-> FALSE, type |-> mapped_server_type]

\* the rows of the servers tables of a provider (none without server tables)
ServerRowsOf(sv, provider, types) ==
    IF provider \in PROVIDER_SERVERS_MODEL_MAP
    THEN UNION {sv[<<provider, t>>] : t \in types}
    ELSE {}

get_provider_servers_for_type(sv, provider, server_type) ==
    LET m == get_mapped_server_type_for_provider(provider, server_type)
    IN  IF m.aborts THEN Abort(404)
        ELSE IF provider \notin PROVIDER_SERVERS_MODEL_MAP THEN Ok({}, {})
        ELSE FormatAll(sv[<<provider, m.type>>], {})

RegionOf(obj) == Attr(obj, "region").v

\* the set of names _get_all_azure_regions collects before it sorts them
AzureRegionNames(rm) ==
    {e.region : e \in rm} \cup {e.canonicalname : e \in rm}

\* sorted(regions)
RECURSIVE sorted(_)
sorted(S) ==
    IF S = {} THEN << >>
    ELSE LET least == CHOOSE x \in S : \A y \in S : Rank(x) <= Rank(y)
         IN  <<least>> \o sorted(S \ {least})

_get_all_azure_regions_Primaries(rm) == sorted({e.region : e \in rm})

_get_all_azure_regions(rm) == sorted(AzureRegionNames(rm))

\* found_regions of get_provider_regions for a provider other than microsoft:
\* the regions of the region-servers table and of the images table
found_regions(sv, im, provider) ==
    {RegionOf(row) : row \in ServerRowsOf(sv, provider, {"region"})}
        \cup (IF ImagesHaveRegion(provider)
              THEN {RegionOf(row) : row \in im[provider]}
              ELSE {})

\* raises: PROVIDER_IMAGES_MODEL_MAP[provider] is a KeyError; names: the
\* names of the regions returned
get_provider_regions(sv, im, rm, provider) ==
    IF provider = "microsoft"
    THEN [raises |-> FALSE, names |-> AzureRegionNames(rm)]
    ELSE IF provider \notin PROVIDER_IMAGES_MODEL_MAP
    THEN [raises |-> TRUE, names |-> {}]
    ELSE [raises |-> FALSE, names |-> found_regions(sv, im, provider)]

\* the orders in which a list built from a set may come
Orders(S) ==
    {q \in [1..Cardinality(S) -> S] : \A x \in S : \E i \in DOMAIN q : q[i] = x}

(***************************************************************************)
(* microsoft: regions are resolved through microsoftregionmap.             *)
(***************************************************************************)
NoRow == AliasRow("", "", "")

Matches_Region(rm, region) == {e \in rm : e.region = region}

\* the rows the lookup by region or canonical name matches
Matches(rm, region) ==
    {e \in rm : e.region = region \/ e.canonicalname = region}

\* .first(): one of the matching rows, None (NoRow) when there is none
First(rm, region) ==
    IF Matches(rm, region) = {} THEN {NoRow} ELSE Matches(rm, region)

all_regions_Matched(rm, environment) == {environment.region}

\* all_regions: the regions of the rows with the canonical name of the row
all_regions(rm, environment) ==
    {e.region : e \in {x \in rm :
                          x.canonicalname = environment.canonicalname}}

_get_azure_servers(sv, rm, environment, server_type) ==
    IF environment = NoRow THEN Abort(404)
    ELSE IF server_type # ""
    THEN LET m == get_mapped_server_type_for_provider("microsoft",
                                                      server_type)
         IN  IF m.aborts THEN Abort(404)
             ELSE FormatAll(
                    {row \in sv[<<"microsoft", m.type>>] :
                        /\ Attr(row, "type") = ServerTypeV(m.type)
                        /\ RegionOf(row) \in all_regions(rm, environment)},
                    {})
    ELSE FormatAll(
            {row \in ServerRowsOf(sv, "microsoft", ServerType) :
                RegionOf(row) \in all_regions(rm, environment)},
            {})

\* state is "" when the caller passes None
_get_azure_images_for_region_state(im, environment, region, state) ==
    IF environment = NoRow THEN Abort(404)
    ELSE IF state = ""
    THEN FormatAll(
            {row \in im["microsoft"] :
                Attr(row, "environment") = StrV(environment.environment)},
            {<<"region", StrV(region)>>})
    ELSE IF state \notin ImageState
    THEN Abort(404)    \* the storage rejects the enum value: DataError
    ELSE FormatAll(
            {row \in im["microsoft"] :
                /\ Attr(row, "environment") = StrV(environment.environment)
                /\ Attr(row, "state") = ImageStateV(state)},
            {<<"region", StrV(region)>>})

(***************************************************************************)
(* The providers with direct region storage.                               *)
(***************************************************************************)
get_provider_images_for_region_and_state(sv, im, rm, environment, provider, region, state) ==
    IF provider = "microsoft"
    THEN _get_azure_images_for_region_state(im, environment, region, state)
    ELSE LET regions == get_provider_regions(sv, im, rm, provider)
         IN  IF regions.raises THEN Unhandled
             ELSE IF state \in ImageState /\ region \in regions.names
             THEN IF ImagesHaveRegion(provider)
                  THEN FormatAll(
                         {row \in im[provider] :
                             /\ RegionOf(row) = region
                             /\ Attr(row, "state") = ImageStateV(state)},
                         {})
                  ELSE FormatAll(
                         {row \in im[provider] :
                             Attr(row, "state") = ImageStateV(state)},
                         {})
             ELSE Abort(404)

get_provider_images_for_state_Unchecked(im, provider, state) ==
    IF provider \notin PROVIDER_IMAGES_MODEL_MAP THEN Unhandled
    ELSE FormatAll({row \in im[provider] :
                       Attr(row, "state") = ImageStateV(state)}, {})

get_provider_images_for_state(im, provider, state) ==
    IF state \notin ImageState THEN Abort(404)
    ELSE IF provider \notin PROVIDER_IMAGES_MODEL_MAP THEN Unhandled
    ELSE FormatAll({row \in im[provider] :
                       Attr(row, "state") = ImageStateV(state)}, {})

get_provider_servers_for_region(sv, im, rm, environment, provider, region) ==
    IF provider = "microsoft"
    THEN _get_azure_servers(sv, rm, environment, "")
    ELSE LET regions == get_provider_regions(sv, im, rm, provider)
         IN  IF regions.raises THEN Unhandled
             ELSE IF region \in regions.names
             THEN FormatAll(
                    {row \in ServerRowsOf(sv, provider, ServerType) :
                        RegionOf(row) = region}, {})
             ELSE Abort(404)

get_provider_servers_for_region_and_type(sv, im, rm, environment, provider, region, server_type) ==
    IF provider = "microsoft"
    THEN _get_azure_servers(sv, rm, environment, server_type)
    ELSE LET m == get_mapped_server_type_for_provider(provider, server_type)
             regions == get_provider_regions(sv, im, rm, provider)
         IN  IF m.aborts THEN Abort(404)
             ELSE IF provider \notin PROVIDER_SERVERS_MODEL_MAP
             THEN Ok({}, {})
             ELSE IF regions.raises THEN Unhandled
             ELSE IF region \in regions.names
             THEN FormatAll(
                    {row \in sv[<<provider, m.type>>] :
                        RegionOf(row) = region}, {})
             ELSE Abort(404)

get_provider_images_for_region(sv, im, rm, environment, provider, region) ==
    IF provider = "microsoft"
    THEN _get_azure_images_for_region_state(im, environment, region, "")
    ELSE LET regions == get_provider_regions(sv, im, rm, provider)
         IN  IF regions.raises THEN Unhandled
             ELSE IF region \in regions.names
             THEN IF ImagesHaveRegion(provider)
                  THEN FormatAll({row \in im[provider] :
                                     RegionOf(row) = region}, {})
                  ELSE Ok({}, {})
             ELSE Abort(404)

get_provider_servers_Region(sv, provider) ==
    FormatAll(ServerRowsOf(sv, provider, {"region"}), {})

get_provider_servers(sv, provider) ==
    FormatAll(ServerRowsOf(sv, provider, ServerType), {})

get_provider_images(im, provider) ==
    IF provider \notin PROVIDER_IMAGES_MODEL_MAP THEN Unhandled
    ELSE FormatAll(im[provider], {})

\* str(version.version) for the versions of the model
DecimalStr(n) == IF n < 10 THEN Digit(n) ELSE TwoDigits(n)

\* the tables whose versions the category asks for
VersionTables(provider, category) ==
    (IF category = "images" THEN {provider \o category} ELSE {})
        \cup (IF category = "servers"
              THEN {provider \o t \o category :
                       t \in DOMAIN REGIONSERVER_SMT_REVERSED_MAP}
              ELSE {})

Min(S) == CHOOSE x \in S : \A y \in S : x <= y

Max(S) == CHOOSE x \in S : \A y \in S : y <= x

get_data_version_for_provider_category(vs, provider, category) ==
    LET found == {vs[t] : t \in {u \in TableNames :
                                    /\ u \in VersionTables(provider, category)
                                    /\ vs[u] # 0}}
    IN  IF found = {} THEN Abort(404)
        ELSE Ok({<<"version", StrV(DecimalStr(Max(found)))>>}, {})

(***************************************************************************)
(* Responses.                                                              *)
(***************************************************************************)
\* ElementTree serializes attribute values that are strings, no others
Serializable(dicts) == \A d \in dicts : \A p \in d : p[2].k = "str"

Response(status, mimetype, collection, items) ==
    [status |-> status, mimetype |-> mimetype, collection |-> collection,
     items |-> items]

\* abort(Response('', status=...)) and an exception no handler catches
Aborted(status) == Response(status, "", "", {})

\* make_response: dicts are the mappings among the items
make_response(xml, items, dicts, collection_name) ==
    IF xml
    THEN IF Serializable(dicts)
         THEN Response(200, "application/xml", collection_name, items)
         ELSE Aborted(500)
    ELSE Response(200, "application/json", collection_name, items)

\* the response to the outcome of a query that returns a list of mappings
Respond(xml, out, collection_name) ==
    IF out.status # 200 THEN Aborted(out.status)
    ELSE make_response(xml, out.items, out.items, collection_name)

(***************************************************************************)
(* Requests.                                                               *)
(***************************************************************************)
ProviderTokens == PROVIDER_IMAGES_MODEL_MAP \cup {"bogus", "Amazon"}
RegionTokens == Regions
KindTokens == DOMAIN REGIONSERVER_SMT_MAP \cup {"bogus"}
StateTokens == {"active", "deprecated", "bogus"}
CategoryTokens == SUPPORTED_CATEGORIES \cup {"bogus"}

Request(route, provider, region, server_type, state, category, xml) ==
    [route |-> route, provider |-> provider, region |-> region,
     server_type |-> server_type, state |-> state, category |-> category,
     xml |-> xml]

NoRequest == Request("", "", "", "", "", "", FALSE)
NoResponse == Response(0, "", "", {})

storage == <<versions, servers, images, regionmap>>

\* the request ends: its response is produced, the session it used is open
Finish(request, response, pairs, environment, used) ==
    /\ pc = "idle"
    /\ pc' = "done"
    /\ req' = request
    /\ resp' = response
    /\ formatted' = pairs
    /\ lookup' = environment
    /\ session' = used
    /\ UNCHANGED storage

list_providers ==
    /\ pc = "idle"
    /\ \E xml \in BOOLEAN, order \in Orders(get_supported_providers(versions)) :
           Finish(Request("providers", "", "", "", "", "", xml),
                  make_response(xml, [i \in DOMAIN order |-> NameDict(order[i])],
                                {NameDict(n) : n \in SeqRange(order)},
                                "providers"),
                  {}, NoRow, "open")

list_provider_servers_types ==
    /\ pc = "idle"
    /\ \E provider \in ProviderTokens, xml \in BOOLEAN :
           LET types == get_provider_servers_types(provider)
           IN  Finish(Request("servers/types", provider, "", "", "", "", xml),
                      IF ~assert_valid_provider(versions, provider)
                      THEN Aborted(404)
                      ELSE make_response(
                             xml, [i \in DOMAIN types |-> NameDict(types[i])],
                             {NameDict(n) : n \in SeqRange(types)}, "types"),
                      {}, NoRow, "open")

\* dir(ImageState) without the names that begin with an underscore
StateNames == <<"active", "deleted", "deprecated", "inactive">>

list_images_states ==
    /\ pc = "idle"
    /\ \E xml \in BOOLEAN :
           Finish(Request("images/states", "", "", "", "", "", xml),
                  make_response(xml,
                                [i \in DOMAIN StateNames |->
                                    NameDict(StateNames[i])],
                                {NameDict(n) : n \in ImageState}, "states"),
                  {}, NoRow, "none")

\* the list of a provider other than microsoft comes in the order of a set
RegionLists(provider) ==
    IF provider = "microsoft"
    THEN {_get_all_azure_regions(regionmap)}
    ELSE Orders(get_provider_regions(servers, images, regionmap,
                                     provider).names)

list_provider_regions ==
    /\ pc = "idle"
    /\ \E provider \in ProviderTokens, xml \in BOOLEAN :
           \E order \in RegionLists(provider) :
               Finish(Request("regions", provider, "", "", "", "", xml),
                      IF ~assert_valid_provider(versions, provider)
                      THEN Aborted(404)
                      ELSE IF get_provider_regions(servers, images, regionmap,
                                                   provider).raises
                      THEN Aborted(500)
                      ELSE make_response(
                             xml, [i \in DOMAIN order |-> NameDict(order[i])],
                             {NameDict(n) : n \in SeqRange(order)}, "regions"),
                      {}, NoRow, "open")

\* the row .first() returns when the provider is microsoft and valid
Lookups(provider, region) ==
    IF provider = "microsoft" /\ assert_valid_provider(versions, provider)
    THEN First(regionmap, region)
    ELSE {NoRow}

list_servers_for_provider_region_and_type ==
    /\ pc = "idle"
    /\ \E provider \in ProviderTokens, region \in RegionTokens,
          server_type \in KindTokens, xml \in BOOLEAN :
           \E environment \in Lookups(provider, region) :
               LET out == get_provider_servers_for_region_and_type(
                              servers, images, regionmap, environment, provider,
                              region, server_type)
               IN  Finish(Request("region/servers/type", provider, region,
                                  server_type, "", "", xml),
                          IF ~assert_valid_provider(versions, provider)
                          THEN Aborted(404)
                          ELSE Respond(xml, out, "servers"),
                          IF assert_valid_provider(versions, provider)
                          THEN out.pairs ELSE {},
                          environment, "open")

list_servers_for_provider_type ==
    /\ pc = "idle"
    /\ \E provider \in ProviderTokens, server_type \in KindTokens,
          xml \in BOOLEAN :
           LET out == get_provider_servers_for_type(servers, provider,
                                                    server_type)
           IN  Finish(Request("servers/type", provider, "", server_type, "", "",
                              xml),
                      IF ~assert_valid_provider(versions, provider)
                      THEN Aborted(404)
                      ELSE Respond(xml, out, "servers"),
                      IF assert_valid_provider(versions, provider)
                      THEN out.pairs ELSE {},
                      NoRow, "open")

list_images_for_provider_region_and_state ==
    /\ pc = "idle"
    /\ \E provider \in ProviderTokens, region \in RegionTokens,
          state \in StateTokens, xml \in BOOLEAN :
           \E environment \in Lookups(provider, region) :
               LET out == get_provider_images_for_region_and_state(
                              servers, images, regionmap, environment, provider,
                              region, state)
               IN  Finish(Request("region/images/state", provider, region, "",
                                  state, "", xml),
                          IF ~assert_valid_provider(versions, provider)
                          THEN Aborted(404)
                          ELSE Respond(xml, out, "images"),
                          IF assert_valid_provider(versions, provider)
                          THEN out.pairs ELSE {},
                          environment, "open")

list_images_for_provider_state ==
    /\ pc = "idle"
    /\ \E provider \in ProviderTokens, state \in StateTokens, xml \in BOOLEAN :
           LET out == get_provider_images_for_state(images, provider, state)
           IN  Finish(Request("images/state", provider, "", "", state, "", xml),
                      IF ~assert_valid_provider(versions, provider)
                      THEN Aborted(404)
                      ELSE Respond(xml, out, "images"),
                      IF assert_valid_provider(versions, provider)
                      THEN out.pairs ELSE {},
                      NoRow, "open")

\* globals()['get_provider_%s_for_region' % category](provider, region)
list_provider_resource_for_category ==
    /\ pc = "idle"
    /\ \E provider \in ProviderTokens, region \in RegionTokens,
          category \in CategoryTokens, xml \in BOOLEAN :
           \E environment \in (IF assert_valid_category(category)
                               THEN Lookups(provider, region) ELSE {NoRow}) :
               LET out == IF category = "images"
                          THEN get_provider_images_for_region(
                                   servers, images, regionmap, environment,
                                   provider, region)
                          ELSE get_provider_servers_for_region(
                                   servers, images, regionmap, environment,
                                   provider, region)
               IN  Finish(Request("region/category", provider, region, "", "",
                                  category, xml),
                          IF ~assert_valid_provider(versions, provider)
                          THEN Aborted(404)
                          ELSE IF ~assert_valid_category(category)
                          THEN Aborted(400)
                          ELSE Respond(xml, out, category),
                          IF assert_valid_provider(versions, provider)
                             /\ assert_valid_category(category)
                          THEN out.pairs ELSE {},
                          environment, "open")

\* globals()['get_provider_%s' % category](provider)
list_provider_resource ==
    /\ pc = "idle"
    /\ \E provider \in ProviderTokens, category \in CategoryTokens,
          xml \in BOOLEAN :
           LET out == IF category = "images"
                      THEN get_provider_images(images, provider)
                      ELSE get_provider_servers(servers, provider)
           IN  Finish(Request("category", provider, "", "", "", category, xml),
                      IF ~assert_valid_provider(versions, provider)
                      THEN Aborted(404)
                      ELSE IF ~assert_valid_category(category)
                      THEN Aborted(400)
                      ELSE Respond(xml, out, category),
                      IF assert_valid_provider(versions, provider)
                         /\ assert_valid_category(category)
                      THEN out.pairs ELSE {},
                      NoRow, "open")

\* category is "" when the request carries no category argument
get_provider_category_data_version ==
    /\ pc = "idle"
    /\ \E provider \in ProviderTokens, category \in CategoryTokens \cup {""},
          xml \in BOOLEAN :
           LET out == get_data_version_for_provider_category(versions, provider,
                                                             category)
           IN  Finish(Request("dataversion", provider, "", "", "", category,
                              xml),
                      IF ~assert_valid_provider(versions, provider)
                      THEN Aborted(404)
                      ELSE IF ~assert_valid_category(category)
                      THEN Aborted(400)
                      ELSE IF out.status # 200 THEN Aborted(out.status)
                      ELSE make_response(xml, out.items, {out.items}, ""),
                      {}, NoRow, "open")

get_package_version ==
    /\ pc = "idle"
    /\ Finish(Request("package-version", "", "", "", "", "", FALSE),
           make_response(FALSE, {<<"package version", StrV("__VERSION__")>>},
                         {}, ""),
           {}, NoRow, "none")

redirect_to_public_cloud ==
    /\ pc = "idle"
    /\ Finish(Request("/", "", "", "", "", "", FALSE), Aborted(301), {}, NoRow,
           "none")

catch_all ==
    /\ pc = "idle"
    /\ Finish(Request("path", "", "", "", "", "", FALSE), Aborted(400), {},
           NoRow, "none")

shutdown_session_Keep ==
    /\ pc = "done"
    /\ pc' = "idle"
    /\ req' = NoRequest
    /\ resp' = NoResponse
    /\ formatted' = {}
    /\ lookup' = NoRow
    /\ UNCHANGED <<storage, session>>

\* teardown_appcontext: the session is removed once the response is produced
shutdown_session ==
    /\ pc = "done"
    /\ pc' = "idle"
    /\ session' = "none"
    /\ req' = NoRequest
    /\ resp' = NoResponse
    /\ formatted' = {}
    /\ lookup' = NoRow
    /\ UNCHANGED storage

(***************************************************************************)
(* The initial states: the contents of the storage.  Each initial state    *)
(* fills the tables of one provider.                                       *)
(***************************************************************************)
Idle ==
    /\ pc = "idle"
    /\ req = NoRequest
    /\ resp = NoResponse
    /\ formatted = {}
    /\ lookup = NoRow
    /\ session = "none"

\* one row, with every combination of empty and non-empty optional columns
InitRecords ==
    /\ versions = AllVersions
    /\ regionmap = {AliasRow("PublicAzure", "East US", "eastus")}
    /\ \/ /\ images = NoImages
          /\ \E p \in PROVIDER_SERVERS_MODEL_MAP, t \in ServerType :
                \E row \in RichServerRows(t) :
                    servers = [NoServers EXCEPT ![<<p, t>>] = {row}]
       \/ /\ servers = NoServers
          /\ \E p \in PROVIDER_IMAGES_MODEL_MAP :
                \E row \in RichImageRows(p) :
                    images = [NoImages EXCEPT ![p] = {row}]

\* a provider with direct region storage: up to MaxRows rows in its tables
DirectRows(p) ==
    {<<"images", row>> : row \in PlainImageRows(p)}
        \cup (IF p \in PROVIDER_SERVERS_MODEL_MAP
              THEN UNION {{<<t, row>> :
                              row \in PlainServerRows(t, DirectRegions)} :
                          t \in ServerType}
              ELSE {})
RowsIn(D, table) == {c[2] : c \in {x \in D : x[1] = table}}
InitRegions ==
    /\ versions = AllVersions
    /\ regionmap = {}
    /\ \E p \in PROVIDER_IMAGES_MODEL_MAP \ {"microsoft"} :
          \E D \in {X \in SUBSET DirectRows(p) : Cardinality(X) <= MaxRows} :
             /\ images = [NoImages EXCEPT ![p] = RowsIn(D, "images")]
             /\ servers =
                   IF p \in PROVIDER_SERVERS_MODEL_MAP
                   THEN [NoServers EXCEPT
                            ![<<p, "region">>] = RowsIn(D, "region"),
                            ![<<p, "update">>] = RowsIn(D, "update")]
                   ELSE NoServers

\* microsoft: servers in every region, images in every environment, and up
\* to MaxAlias rows of microsoftregionmap
AzureServerRows(type) == PlainServerRows(type, Regions)
AzureImageRows ==
    {ImageRow("microsoft", 1, "active", "PublicAzure", None, None, None),
     ImageRow("microsoft", 2, "active", "AzureChinaCloud", None, None, None),
     ImageRow("microsoft", 3, "deprecated", "PublicAzure", None, None, None)}
AliasNames ==
    {<<"East US", "eastus">>, <<"eastus", "eastus">>, <<"westus", "westus">>,
     <<"westus", "eastus">>}
AliasRows == {AliasRow(e, n[1], n[2]) : e \in Environments, n \in AliasNames}
\* "assume the environment is unique per region"
EnvironmentUniquePerRegion(M) ==
    \A a, b \in M : a.region = b.region => a.environment = b.environment
InitAlias ==
    /\ versions = AllVersions
    /\ regionmap \in {M \in SUBSET AliasRows :
                         /\ Cardinality(M) <= MaxAlias
                         /\ EnvironmentUniquePerRegion(M)}
    /\ servers = [NoServers EXCEPT
                     ![<<"microsoft", "region">>] = AzureServerRows("region"),
                     ![<<"microsoft", "update">>] = AzureServerRows("update")]
    /\ images = [NoImages EXCEPT !["microsoft"] = AzureImageRows]

VersionProviders == {"amazon", "oracle"}
\* the version rows of one provider, each absent or with a version
InitVersions ==
    /\ regionmap = {}
    /\ servers = NoServers
    /\ images = NoImages
    /\ \E p \in VersionProviders :
          versions \in {vs \in [TableNames -> 0..MaxVersion] :
                           \A t \in TableNames :
                               StripSuffix(t) # p => vs[t] = 0}

Init ==
    /\ Idle
    /\ \/ InitRecords
       \/ InitRegions
       \/ InitAlias
       \/ InitVersions

Next ==
    \/ list_providers
    \/ list_provider_servers_types
    \/ list_images_states
    \/ list_provider_regions
    \/ list_servers_for_provider_region_and_type
    \/ list_servers_for_provider_type
    \/ list_images_for_provider_region_and_state
    \/ list_images_for_provider_state
    \/ list_provider_resource_for_category
    \/ list_provider_resource
    \/ get_provider_category_data_version
    \/ get_package_version
    \/ redirect_to_public_cloud
    \/ catch_all
    \/ shutdown_session

Spec == Init /\ [][Next]_vars

(***************************************************************************)
(* Properties.                                                             *)
(***************************************************************************)
Done == pc = "done"

\* the response is NotFound: status 404 and an empty body
NotFound == resp.status = 404 /\ resp = Aborted(404)

\* the provider token of the request is the name of a supported provider
ValidProvider == req.provider \in get_supported_providers(versions)

\* the request lists servers: unfiltered, by region, by kind, by both
ServerListing ==
    \/ req.route \in {"category", "region/category"} /\ req.category = "servers"
    \/ req.route \in {"servers/type", "region/servers/type"}

\* the kind token of the request, if it has one, is one of the kind tokens
\* of REGIONSERVER_SMT_MAP
KindRecognized ==
    req.server_type = "" \/ req.server_type \in DOMAIN REGIONSERVER_SMT_MAP

\* the server records and the image records among the formatted pairs
IsServer(row) == HasAttr(row, "shape")
StoredFields(row) ==
    {row[i][1] : i \in DOMAIN row} \ {"_sa_instance_state"}
TypeOf(prefix, row) ==
    IF Truthy(Attr(row, "shape"))
    THEN StrV(prefix \o "-" \o Attr(row, "shape").v)
    ELSE StrV(prefix)

\* C1: for alibaba and oracle, which have no server tables, every
\* server-listing operation (unfiltered, by region, by kind, by region and
\* kind), with any region token and any kind token of the kind vocabulary,
\* answers 200 with an empty collection, never an error.
C1_NoServerTablesEmpty ==
    (Done /\ ValidProvider /\ req.provider \in {"alibaba", "oracle"}
          /\ ServerListing /\ KindRecognized)
        => (resp.status = 200 /\ resp.items = {})

\* C2, as stated: a server record with a non-empty stored name is output
\* with that name and type "update" or "update-<shape>"; one with an empty
\* name is output with name "" and type "region" or "region-<shape>"; the
\* output has no shape key.
C2_TypeUpdateRegion ==
    \A p \in formatted :
        IsServer(p[1]) =>
            /\ "shape" \notin Keys(p[2])
            /\ IF Truthy(Attr(p[1], "name"))
               THEN /\ Get(p[2], "name") = Attr(p[1], "name")
                    /\ Get(p[2], "type") = TypeOf("update", p[1])
               ELSE /\ Get(p[2], "name") = StrV("")
                    /\ Get(p[2], "type") = TypeOf("region", p[1])

\* C2, amended: a server record with a non-empty stored name is output with
\* that name and type "smt" or "smt-<shape>"; one with an empty name is
\* output with name "" and type "regionserver" or "regionserver-<shape>";
\* the output has no shape key.
C2_TypeSmtRegionserver ==
    \A p \in formatted :
        IsServer(p[1]) =>
            /\ "shape" \notin Keys(p[2])
            /\ IF Truthy(Attr(p[1], "name"))
               THEN /\ Get(p[2], "name") = Attr(p[1], "name")
                    /\ Get(p[2], "type") = TypeOf("smt", p[1])
               ELSE /\ Get(p[2], "name") = StrV("")
                    /\ Get(p[2], "type") = TypeOf("regionserver", p[1])

\* a named server with a shape and an unnamed one have been formatted
C2_Witness ==
    /\ Done
    /\ \E p \in formatted :
          /\ IsServer(p[1])
          /\ Truthy(Attr(p[1], "name"))
          /\ Truthy(Attr(p[1], "shape"))
          /\ Get(p[2], "type") = StrV("smt-sap")

\* urn and changeinfo are in the output exactly when stored non-empty
OptionalKeys(p) ==
    \A f \in {"urn", "changeinfo"} :
        /\ f \in Keys(p[2]) <=> Truthy(Attr(p[1], f))
        /\ f \in Keys(p[2]) => Get(p[2], f) = Attr(p[1], f)

\* C3, as stated: urn (changeinfo) is in the output if and only if its
\* stored value is non-empty; every other stored field that is empty or
\* null is in the output with the empty string as value.
C3_EveryOtherFieldEmitted ==
    \A p \in formatted :
        /\ OptionalKeys(p)
        /\ \A f \in StoredFields(p[1]) \ {"urn", "changeinfo"} :
              ~Truthy(Attr(p[1], f)) =>
                  (f \in Keys(p[2]) /\ Get(p[2], f) = StrV(""))

\* C3, amended: urn (changeinfo) is in the output if and only if its stored
\* value is non-empty; every other stored field except shape that is empty
\* or null is in the output with the empty string as value; shape is never
\* in the output.
C3_EveryOtherFieldButShape ==
    \A p \in formatted :
        /\ OptionalKeys(p)
        /\ "shape" \notin Keys(p[2])
        /\ \A f \in StoredFields(p[1]) \ {"urn", "changeinfo", "shape"} :
              ~Truthy(Attr(p[1], f)) =>
                  (f \in Keys(p[2]) /\ Get(p[2], f) = StrV(""))

\* an image with an empty changeinfo, a stored urn and a null date has been
\* formatted
C3_Witness ==
    /\ Done
    /\ \E p \in formatted :
          /\ Attr(p[1], "changeinfo") = StrV("")
          /\ Truthy(Attr(p[1], "urn"))
          /\ Attr(p[1], "deprecatedon") = None
          /\ "changeinfo" \notin Keys(p[2])
          /\ "urn" \in Keys(p[2])
          /\ Get(p[2], "deprecatedon") = StrV("")

\* the request asks microsoft for servers or images of a region, and the
\* lookup of the region found a row
AzureServersByRegion ==
    /\ Done /\ ValidProvider /\ req.provider = "microsoft"
    /\ \/ req.route = "region/servers/type"
       \/ req.route = "region/category" /\ req.category = "servers"
AzureImagesByRegion ==
    /\ Done /\ ValidProvider /\ req.provider = "microsoft"
    /\ \/ req.route = "region/images/state"
       \/ req.route = "region/category" /\ req.category = "images"

\* what the same request returns for the token region resolved to the row
\* environment
AzureOutcome(environment, region) ==
    IF req.route = "region/servers/type" \/ req.category = "servers"
    THEN _get_azure_servers(servers, regionmap, environment, req.server_type)
    ELSE _get_azure_images_for_region_state(images, environment, region,
                                            req.state)

\* the tokens of the equivalence class of a canonical name: the primary
\* regions of its rows and the canonical name itself
ClassTokens(c) ==
    {e.region : e \in {x \in regionmap : x.canonicalname = c}} \cup {c}
SameClass(t, u) ==
    \E c \in {e.canonicalname : e \in regionmap} :
        t \in ClassTokens(c) /\ u \in ClassTokens(c)

WithoutRegion(items) == {{p \in d : p[1] # "region"} : d \in items}

ClassRows == {e \in regionmap : e.canonicalname = lookup.canonicalname}
ClassServers ==
    {row \in ServerRowsOf(servers, "microsoft",
                          IF req.server_type = "" THEN ServerType
                          ELSE {REGIONSERVER_SMT_MAP[req.server_type]}) :
        RegionOf(row) \in {e.region : e \in ClassRows}}
ClassImages ==
    {row \in images["microsoft"] :
        /\ Attr(row, "environment").v \in {e.environment : e \in ClassRows}
        /\ req.state # "" => Attr(row, "state") = ImageStateV(req.state)}

\* C5: a microsoft servers (images) query by a member region or by the
\* canonical name returns the servers (images) of every alias row of the
\* whole equivalence class, not only those of the row matched first.
C5_UnionOfClass ==
    /\ (AzureServersByRegion /\ resp.status = 200)
          => resp.items = FormatAll(ClassServers, {}).items
    /\ (AzureImagesByRegion /\ resp.status = 200)
          => resp.items =
                FormatAll(ClassImages,
                          {<<"region", StrV(req.region)>>}).items

\* the names in a list of {'name': ...} mappings
Names(list) == {Get(list[i], "name").v : i \in DOMAIN list}

\* C6: listing all regions of microsoft returns exactly the primary region
\* and the canonical name of every alias row, without duplicate, in
\* ascending order.
C6_AzureRegionsSortedUnion ==
    (Done /\ req.route = "regions" /\ req.provider = "microsoft"
          /\ resp.status = 200)
        => /\ Names(resp.items) =
                 {e.region : e \in regionmap}
                     \cup {e.canonicalname : e \in regionmap}
           /\ Len(resp.items) = Cardinality(Names(resp.items))
           /\ \A i, j \in DOMAIN resp.items :
                 i < j => Rank(Get(resp.items[i], "name").v)
                              < Rank(Get(resp.items[j], "name").v)

\* the list has three names, one of them a canonical name that is the
\* primary region of no row
C6_Witness ==
    /\ Done /\ req.route = "regions" /\ req.provider = "microsoft"
    /\ resp.status = 200
    /\ Len(resp.items) = 3
    /\ \E e \in regionmap : \A x \in regionmap : x.region # e.canonicalname

\* C7: for every valid provider, an images query whose state token is none
\* of active, inactive, deprecated, deleted fails with NotFound (404, empty
\* body), with a region or without, and returns no image.
C7_UnknownStateNotFound ==
    (Done /\ ValidProvider
          /\ req.route \in {"images/state", "region/images/state"}
          /\ req.state \notin {"active", "inactive", "deprecated", "deleted"})
        => (NotFound /\ formatted = {})

\* microsoft is asked for the images of a region that resolves, in an
\* unknown state
C7_Witness ==
    /\ Done /\ ValidProvider
    /\ req.route = "region/images/state"
    /\ req.provider = "microsoft"
    /\ lookup # NoRow
    /\ req.state = "bogus"
    /\ resp.status = 404

\* the version recorded for a table, 0 when there is no row for it
Recorded(tablename) ==
    IF tablename \in TableNames THEN versions[tablename] ELSE 0
Larger(a, b) == IF a >= b THEN a ELSE b
VersionBody(n) == {<<"version", StrV(DecimalStr(n))>>}

DataVersion(category) ==
    /\ Done /\ assert_valid_provider(versions, req.provider)
    /\ req.route = "dataversion" /\ req.category = category

\* C8: dataVersion(provider, "servers") returns the maximum of the versions
\* recorded for the update-servers and the region-servers table of the
\* provider when at least one of the two rows exists, and fails with
\* NotFound when neither does; dataVersion(provider, "images") returns the
\* version of the images table, or fails with NotFound without that row.
C8_DataVersionMaximum ==
    /\ DataVersion("servers")
          => LET r == Recorded(req.provider \o "regionservers")
                 u == Recorded(req.provider \o "updateservers")
             IN  IF r = 0 /\ u = 0
                 THEN NotFound
                 ELSE /\ resp.status = 200
                      /\ resp.items = VersionBody(Larger(r, u))
    /\ DataVersion("images")
          => LET i == Recorded(req.provider \o "images")
             IN  IF i = 0
                 THEN NotFound
                 ELSE /\ resp.status = 200
                      /\ resp.items = VersionBody(i)

\* both server tables have a version, that of the update servers the larger
C8_Witness ==
    /\ DataVersion("servers")
    /\ Recorded(req.provider \o "regionservers") > 0
    /\ Recorded(req.provider \o "updateservers")
           > Recorded(req.provider \o "regionservers")
    /\ resp.status = 200

\* the request is one of the provider-scoped operations
ProviderScoped ==
    req.route \in {"servers/types", "regions", "region/servers/type",
                   "servers/type", "region/images/state", "images/state",
                   "region/category", "category", "dataversion"}

\* C9: every provider-scoped operation called with a provider token that is
\* not a supported provider returns NotFound (404, empty body), in the JSON
\* and in the XML variant, whatever the other parameters are, also when the
\* category is unrecognized.
C9_UnknownProviderNotFound ==
    (Done /\ ProviderScoped
          /\ Lower(req.provider) \notin get_supported_providers(versions))
        => NotFound

\* an unsupported provider and an unrecognized category, in the XML variant
C9_Witness ==
    /\ Done /\ req.route = "region/category"
    /\ Lower(req.provider) \notin get_supported_providers(versions)
    /\ req.provider \in PROVIDER_IMAGES_MODEL_MAP
    /\ req.category = "bogus"
    /\ req.xml
    /\ resp.status = 404

\* the regions that occur in a row of the server tables or of the images
\* table of a provider
StoredRegions(provider) ==
    {RegionOf(row) : row \in ServerRowsOf(servers, provider, ServerType)}
        \cup (IF ImagesHaveRegion(provider)
              THEN {RegionOf(row) : row \in images[provider]}
              ELSE {})

\* C10: for a provider with direct region storage, listRegions returns
\* exactly the regions that occur in a row of its region-servers table, of
\* its update-servers table or of its images table, and a region token is
\* valid (a servers query by it does not fail with NotFound) exactly when it
\* is one of them.
C10_RegionsOfAllTables ==
    /\ (Done /\ ValidProvider /\ req.route = "regions"
             /\ req.provider # "microsoft" /\ resp.status = 200)
          => Names(resp.items) = StoredRegions(req.provider)
    /\ (Done /\ ValidProvider /\ req.route = "region/category"
             /\ req.category = "servers"
             /\ req.provider \in PROVIDER_SERVERS_MODEL_MAP \ {"microsoft"})
          => (resp.status # 404 <=>
                  req.region \in StoredRegions(req.provider))

\* the provider has direct region storage and an images table without a
\* region column
ImagesWithoutRegion ==
    req.provider # "microsoft" /\ ~ImagesHaveRegion(req.provider)

\* the region token of the request is one that listRegions returns
RegionListed ==
    req.region \in get_provider_regions(servers, images, regionmap,
                                        req.provider).names

\* C11: for a provider whose images table has no region column, every
\* images query that carries a valid region returns an empty list, with no
\* state and with a recognized state.
C11_RegionImagesEmpty ==
    (Done /\ ValidProvider /\ ImagesWithoutRegion /\ RegionListed
          /\ \/ req.route = "region/category" /\ req.category = "images"
             \/ req.route = "region/images/state" /\ req.state \in ImageState)
        => (resp.status = 200 /\ resp.items = {})

\* the request lists the servers of a kind, with a region or without
ByKind ==
    Done /\ ValidProvider /\ req.route \in {"servers/type", "region/servers/type"}

RecognizedKinds ==
    {"smt", "regionserver", "regionserver-sap", "regionserver-sles", "update",
     "region"}

\* the kind a legacy alias stands for
Normalized(kind) ==
    IF kind = "smt" THEN "update"
    ELSE IF kind \in {"regionserver", "regionserver-sap", "regionserver-sles"}
    THEN "region"
    ELSE kind

\* the response to the request with its kind token replaced by kind
WithKind(kind) ==
    Respond(req.xml,
            IF req.route = "servers/type"
            THEN get_provider_servers_for_type(servers, req.provider, kind)
            ELSE get_provider_servers_for_region_and_type(
                     servers, images, regionmap, lookup, req.provider,
                     req.region, kind),
            "servers")

\* neither the kind token nor its normalized kind is among the server types
\* of the provider
Unsupported(provider, kind) ==
    /\ kind \notin SeqRange(get_provider_servers_types(provider))
    /\ Normalized(kind) \notin SeqRange(get_provider_servers_types(provider))

\* C12, as stated: in a servers-by-kind query a kind token outside the kind
\* vocabulary yields NotFound, a legacy alias yields the same result as its
\* normalized kind, and a recognized kind that the provider does not support
\* yields NotFound.
C12_UnsupportedKindNotFound ==
    ByKind =>
        /\ req.server_type \notin RecognizedKinds => NotFound
        /\ req.server_type \in RecognizedKinds =>
              /\ resp = WithKind(Normalized(req.server_type))
              /\ Unsupported(req.provider, req.server_type) => NotFound

\* C12, amended: in a servers-by-kind query a kind token outside the kind
\* vocabulary yields NotFound and a legacy alias yields the same result as
\* its normalized kind; no recognized kind is refused for lack of support:
\* a provider with server tables has both normalized kinds, and a provider
\* without server tables answers every recognized kind with the empty
\* collection.
C12_KindNormalized ==
    ByKind =>
        /\ req.server_type \notin RecognizedKinds => NotFound
        /\ req.server_type \in RecognizedKinds =>
              /\ resp = WithKind(Normalized(req.server_type))
              /\ req.provider \in PROVIDER_SERVERS_MODEL_MAP =>
                    ~Unsupported(req.provider, req.server_type)
              /\ req.route = "servers/type" => resp.status # 404
              /\ req.provider \notin PROVIDER_SERVERS_MODEL_MAP =>
                    (resp.status = 200 /\ resp.items = {})

\* the legacy alias smt returned the update servers of a provider that has
\* region servers too
C12_Witness ==
    /\ ByKind
    /\ req.server_type = "smt"
    /\ resp.status = 200
    /\ resp.items # {}
    /\ servers[<<req.provider, "region">>] # {}

\* the request lists the servers of a region, of every kind or of a
\* recognized kind
ServersByRegion ==
    /\ Done /\ ValidProvider
    /\ \/ req.route = "region/category" /\ req.category = "servers"
       \/ /\ req.route = "region/servers/type"
          /\ req.server_type \in RecognizedKinds

\* C13, as stated: for every provider, a servers query with a region fails
\* with NotFound if and only if the region token is not in
\* listRegions(provider).
C13_NotFoundIffUnlisted ==
    ServersByRegion => (resp.status = 404 <=> ~RegionListed)

\* C13, amended: for every provider with server tables, a servers query
\* with a region fails with NotFound if and only if the region token is not
\* in listRegions(provider); a provider without server tables answers a
\* servers query with a region and a recognized kind with the empty
\* collection, whatever the region token is.
C13_NotFoundIffUnlistedWithTables ==
    /\ (ServersByRegion /\ req.provider \in PROVIDER_SERVERS_MODEL_MAP)
          => (resp.status = 404 <=> ~RegionListed)
    /\ (ServersByRegion /\ req.provider \notin PROVIDER_SERVERS_MODEL_MAP
                        /\ req.route = "region/servers/type")
          => (resp.status = 200 /\ resp.items = {})

\* microsoft servers were returned for a canonical name that is the primary
\* region of no row
C13_Witness ==
    /\ ServersByRegion
    /\ req.provider = "microsoft"
    /\ \A e \in regionmap : e.region # req.region
    /\ RegionListed
    /\ resp.status = 200
    /\ resp.items # {}

\* the request lists the servers of a provider with server tables with no
\* kind, with a region or without, and is answered with a result
ServersOfEveryKind ==
    /\ Done /\ ValidProvider
    /\ req.provider \in PROVIDER_SERVERS_MODEL_MAP
    /\ req.route \in {"category", "region/category"}
    /\ req.category = "servers"
    /\ resp.status = 200

\* what the same query pinned to a kind returns
OfKind(kind) ==
    IF req.route = "category"
    THEN get_provider_servers_for_type(servers, req.provider, kind)
    ELSE get_provider_servers_for_region_and_type(
             servers, images, regionmap, lookup, req.provider, req.region,
             kind)

\* C14: for every provider with server tables and every valid region (or no
\* region), the servers query with no kind returns, as a set, exactly the
\* union of the results of the same query with kind region and with kind
\* update.
C14_UnionOfKinds ==
    ServersOfEveryKind =>
        /\ OfKind("region").status = 200
        /\ OfKind("update").status = 200
        /\ resp.items = OfKind("region").items \cup OfKind("update").items

\* the query with no kind returned a region server and an update server
C14_Witness ==
    /\ ServersOfEveryKind
    /\ OfKind("region").items # {}
    /\ OfKind("update").items # {}
    /\ OfKind("region").items # OfKind("update").items

\* teardown_appcontext: the framework runs shutdown_session when the
\* application context of a request is popped, whether the view returned or
\* raised, so a request that has produced its response is always torn down
FairSpec == Spec /\ WF_vars(shutdown_session)

\* C15: for every request, whether it ends with a result or is aborted with
\* 404 or 400, the storage session acquired for it is eventually released at
\* the end of that request, and no request holds a session once the request
\* is over: the next request starts with no session.
C15_SessionReleased ==
    /\ [](pc = "idle" => session = "none")
    /\ (pc = "done") ~> (pc = "idle" /\ session = "none")

\* a request aborted with 400 after its provider was validated holds a
\* session when its response is produced
C15_Witness ==
    /\ Done
    /\ ProviderScoped
    /\ resp.status = 400
    /\ session = "open"

\* the shapes a type value may carry after its kind
ShapeTokens == {"sap", "sles"}

\* the type values of the output that stand for a normalized kind: the
\* name the output gives the kind, alone or followed by '-' and a shape
TypesOfKind(kind) ==
    {StrV(REGIONSERVER_SMT_REVERSED_MAP[kind])}
        \cup {StrV(REGIONSERVER_SMT_REVERSED_MAP[kind] \o "-" \o s) :
                 s \in ShapeTokens}

\* C16: for every provider with server tables and every recognized kind,
\* every record a servers query pinned to that kind returns, with a region
\* or without, has the type of the normalized kind, alone or followed by
\* '-' and a shape, whatever the stored names are: a query for region
\* servers returns no record typed as an update server, and conversely.
C16_TypeOfQueriedKind ==
    (ByKind /\ req.provider \in PROVIDER_SERVERS_MODEL_MAP
            /\ req.server_type \in RecognizedKinds
            /\ resp.status = 200)
        => \A d \in resp.items :
              Get(d, "type") \in TypesOfKind(Normalized(req.server_type))

\* C17: every provider token that assert_valid_provider accepts is a key of
\* PROVIDER_IMAGES_MODEL_MAP as the dispatcher uses it, the token as given,
\* so that no request that passes provider validation ends in an unhandled
\* lookup failure instead of a result, a 404 or a 400.
C17_AcceptedTokenIsKey ==
    (Done /\ ProviderScoped /\ assert_valid_provider(versions, req.provider))
        => /\ req.provider \in PROVIDER_IMAGES_MODEL_MAP
           /\ ~req.xml => resp.status \in {200, 404, 400}

====
